---- MODULE Spec2Model ----
(***************************************************************************)
(* Model of hamster_auto_tracker.py: the AutoTracker object reacts to the  *)
(* ScreenSaver ActiveChanged signal and to eavesdropped ScreenSaver.Lock    *)
(* calls, and drives the hamster time-tracking service over D-Bus.         *)
(*                                                                          *)
(* Time is counted in whole seconds.  A day is DayLen seconds long.        *)
(* An optional value (Python None) is a sequence of length 0 or 1.         *)
(***************************************************************************)
EXTENDS Integers, Sequences, FiniteSets, TLC

\* ---- bounds of the model ----
MaxTime == 2        \* the clock runs from 0 to MaxTime
DayLen == 2         \* seconds per day: times 0..DayLen-1 are day 0
MaxDelay == 2       \* the idle-delay setting is one of 0..MaxDelay seconds
MaxEvents == 4      \* number of LockRequested / ActiveChanged events logged
MaxFailures == 1    \* number of events during which a hamster call fails

\* ---- module level settings (lines 13-15) ----
default_activity == "Work"
default_category == "Work"

None == <<>>
Some(x) == <<x>>

VARIABLES
    screensaver_active,  \* self.screensaver_active
    screen_locked,       \* self.screen_locked
    timeout_minutes,     \* self.timeout_minutes, a fraction [num, den]
    hamster,             \* the hamster service: [facts, next_id]
    now,                 \* the wall clock, dt.datetime.now()
    last_msg,            \* the last bus message handed to the filter
    history,             \* the events handled so far, with their commands
    queue,               \* events received by the bus connection, not yet
                         \* dispatched by the main loop
    running,             \* the event whose handler the main loop is running
    twin                 \* a second AutoTracker with a ledger of its own,
                         \* fed the same ActiveChanged signals

\* the variables only the specifications SpecQ and SpecH use
aux == <<queue, running, twin>>

vars == <<screensaver_active, screen_locked, timeout_minutes, hamster, now,
          last_msg, history, queue, running, twin>>

Last(s) == s[Len(s)]

\* ---- time ----
Day(t) == t \div DayLen

\* d/60 of __init__ is a true division: the result is kept as a fraction
Div60(d) == [num |-> d, den |-> 60]
Zero == [num |-> 0, den |-> 1]
Truthy(m) == m.num # 0

\* dt.timedelta(minutes=m), in seconds
timedelta(minutes) == (minutes.num * 60) \div minutes.den

\* to_dbus_date: a datetime as the integer timestamp sent over the bus.
\* Both sides count whole seconds.
to_dbus_date(d) == d

\* ---- facts and their bus representation ----
Fact(id, activity, category, start, end) ==
    [id |-> id, activity |-> activity, category |-> category,
     start |-> start, end |-> end]

to_dbus_fact_json(f) == <<f.id, f.activity, f.category, f.start, f.end>>
from_dbus_fact_json(j) == Fact(j[1], j[2], j[3], j[4], j[5])

RECURSIVE MapJson(_)
MapJson(fs) ==
    IF fs = <<>> THEN <<>>
    ELSE <<to_dbus_fact_json(Head(fs))>> \o MapJson(Tail(fs))

\* ---- the hamster service (the ledger) ----
IsToday(f, t) == Day(f.start) = Day(t)

TodaysFacts(h, t) == SelectSeq(h.facts, LAMBDA f : IsToday(f, t))

\* org.gnome.Hamster.GetTodaysFactsJSON
GetTodaysFactsJSON(h, t) == MapJson(TodaysFacts(h, t))

\* org.gnome.Hamster.StopTracking: end the ongoing fact of today, if any
StopTracking(h, end_time, t) ==
    LET today == TodaysFacts(h, t) IN
    IF today # <<>> /\ Last(today).end = None
    THEN [h EXCEPT !.facts =
             [i \in DOMAIN h.facts |->
                 IF h.facts[i].id = Last(today).id
                 THEN [h.facts[i] EXCEPT !.end = Some(end_time)]
                 ELSE h.facts[i]]]
    ELSE h

\* org.gnome.Hamster.UpdateFactJSON: the fact with this id takes the given
\* fields and keeps its id
UpdateFactJSON(h, fact_id, json) ==
    [h EXCEPT !.facts =
        [i \in DOMAIN h.facts |->
            IF h.facts[i].id = fact_id
            THEN [from_dbus_fact_json(json) EXCEPT !.id = fact_id]
            ELSE h.facts[i]]]

\* org.gnome.Hamster.AddFactJSON: a new fact under a fresh id
AddFactJSON(h, json) ==
    [facts |-> Append(h.facts,
                      [from_dbus_fact_json(json) EXCEPT !.id = h.next_id]),
     next_id |-> h.next_id + 1]

\* ---- ledger commands as logged in history ----
\* ok: the hamster calls of the command returned; Failed: one of them raised
CloseOpenEntry(at) ==
    [kind |-> "CloseOpenEntry", at |-> Some(at), id |-> 0, created |-> FALSE,
     ok |-> TRUE]
UpsertOpenEntry(id, created) ==
    [kind |-> "UpsertOpenEntry", at |-> None, id |-> id, created |-> created,
     ok |-> TRUE]
Failed(command) == [command EXCEPT !.ok = FALSE]

\* ---- AutoTracker ----
\* self as a record of the object's fields, with the commands issued by the
\* handler that is running.  bus says how the hamster proxy answers while
\* the handler runs: "up" (every call returns), "down" (every call raises)
\* or "readonly" (GetTodaysFactsJSON returns, the calls that write raise).
Self == [screensaver_active |-> screensaver_active,
         screen_locked |-> screen_locked,
         timeout_minutes |-> timeout_minutes,
         hamster |-> hamster,
         commands |-> <<>>,
         bus |-> "up"]

\* bus messages seen by the filter
LockMsg == [interface |-> "org.gnome.ScreenSaver", member |-> "Lock"]
Messages == {LockMsg,
             [interface |-> "org.gnome.ScreenSaver", member |-> "GetActive"],
             [interface |-> "org.gnome.Hamster", member |-> "Lock"]}

on_locked_toggle(self, msg) ==
    IF msg.interface = "org.gnome.ScreenSaver" /\ msg.member = "Lock"
    THEN [self EXCEPT !.screen_locked = ~self.screen_locked]
    ELSE self

on_locked_member(self, msg) ==
    IF msg.member = "Lock"
    THEN [self EXCEPT !.screen_locked = TRUE]
    ELSE self

\* on_locked (lines 100-103)
on_locked(self, msg) ==
    IF msg.interface = "org.gnome.ScreenSaver" /\ msg.member = "Lock"
    THEN [self EXCEPT !.screen_locked = TRUE]
    ELSE self

idle_start_now(self, t) == t

idle_start_unlocked(self, t) ==
    IF Truthy(self.timeout_minutes)
    THEN t - timedelta(self.timeout_minutes)
    ELSE t

\* idle_start (lines 118-128)
idle_start(self, t) ==
    IF ~self.screen_locked /\ Truthy(self.timeout_minutes)
    THEN t - timedelta(self.timeout_minutes)
    ELSE t

\* stop_activity (lines 131-134); a call that raises ends the handler
stop_activity(self, t) ==
    LET at == idle_start(self, t) IN
    IF self.bus = "up"
    THEN [self EXCEPT
             !.hamster = StopTracking(self.hamster, to_dbus_date(at), t),
             !.commands = Append(self.commands, CloseOpenEntry(at))]
    ELSE [self EXCEPT
             !.commands = Append(self.commands, Failed(CloseOpenEntry(at)))]

\* get_todays_activities (lines 137-138)
get_todays_activities(self, t) == GetTodaysFactsJSON(self.hamster, t)

resume_activity_add(self, t) ==
    LET act == Fact(0, default_activity, default_category, t, None)
    IN [self EXCEPT
           !.hamster = AddFactJSON(self.hamster, to_dbus_fact_json(act)),
           !.commands = Append(self.commands,
                               UpsertOpenEntry(self.hamster.next_id, TRUE))]

resume_activity_first(self, t) ==
    LET activities == get_todays_activities(self, t) IN
    IF activities # <<>>
    THEN LET act == [from_dbus_fact_json(Head(activities)) EXCEPT !.end = None]
             json == to_dbus_fact_json(act)
         IN [self EXCEPT
                !.hamster = UpdateFactJSON(self.hamster, act.id, json),
                !.commands = Append(self.commands,
                                    UpsertOpenEntry(act.id, FALSE))]
    ELSE resume_activity_add(self, t)

resume_activity_midnight(self, t) ==
    LET activities == get_todays_activities(self, t) IN
    IF activities # <<>>
    THEN LET act == [from_dbus_fact_json(Last(activities)) EXCEPT !.end = None]
             json == to_dbus_fact_json(act)
         IN [self EXCEPT
                !.hamster = UpdateFactJSON(self.hamster, act.id, json),
                !.commands = Append(self.commands,
                                    UpsertOpenEntry(act.id, FALSE))]
    ELSE LET act == Fact(0, default_activity, default_category, 0, None)
         IN [self EXCEPT
                !.hamster = AddFactJSON(self.hamster, to_dbus_fact_json(act)),
                !.commands = Append(self.commands,
                                    UpsertOpenEntry(self.hamster.next_id, TRUE))]

resume_activity_relabel(self, t) ==
    LET activities == get_todays_activities(self, t) IN
    IF activities # <<>>
    THEN LET old == from_dbus_fact_json(Last(activities))
             act == Fact(old.id, default_activity, default_category, t, None)
             json == to_dbus_fact_json(act)
         IN [self EXCEPT
                !.hamster = UpdateFactJSON(self.hamster, act.id, json),
                !.commands = Append(self.commands,
                                    UpsertOpenEntry(act.id, FALSE))]
    ELSE resume_activity_add(self, t)

\* resume_activity (lines 141-156); a call that raises ends the handler
resume_activity(self, t) ==
    IF self.bus = "down"
    THEN [self EXCEPT
             !.commands = Append(self.commands,
                                 Failed(UpsertOpenEntry(0, FALSE)))]
    ELSE
    LET activities == get_todays_activities(self, t) IN
    IF activities # <<>>
    THEN LET act == [from_dbus_fact_json(Last(activities)) EXCEPT !.end = None]
             json == to_dbus_fact_json(act)
         IN IF self.bus = "up"
            THEN [self EXCEPT
                     !.hamster = UpdateFactJSON(self.hamster, act.id, json),
                     !.commands = Append(self.commands,
                                         UpsertOpenEntry(act.id, FALSE))]
            ELSE [self EXCEPT
                     !.commands = Append(self.commands,
                                    Failed(UpsertOpenEntry(act.id, FALSE)))]
    ELSE LET act == Fact(0, default_activity, default_category, t, None)
         IN IF self.bus = "up"
            THEN [self EXCEPT
                     !.hamster = AddFactJSON(self.hamster,
                                             to_dbus_fact_json(act)),
                     !.commands = Append(self.commands,
                                UpsertOpenEntry(self.hamster.next_id, TRUE))]
            ELSE [self EXCEPT
                     !.commands = Append(self.commands,
                                         Failed(UpsertOpenEntry(0, TRUE)))]

on_active_changed_edge(self, arg, t) ==
    IF arg = self.screensaver_active
    THEN self
    ELSE IF arg
         THEN stop_activity([self EXCEPT !.screensaver_active = arg], t)
         ELSE resume_activity([self EXCEPT !.screensaver_active = arg,
                                           !.screen_locked = FALSE], t)

on_active_changed_keep(self, arg, t) ==
    LET s1 == [self EXCEPT !.screensaver_active = arg] IN
    IF s1.screensaver_active
    THEN stop_activity(s1, t)
    ELSE resume_activity(s1, t)

on_active_changed_clear(self, arg, t) ==
    LET s1 == [self EXCEPT !.screensaver_active = arg,
                           !.screen_locked = FALSE] IN
    IF s1.screensaver_active
    THEN stop_activity(s1, t)
    ELSE resume_activity(s1, t)

on_active_changed_unassigned(self, arg, t) ==
    IF arg
    THEN stop_activity(self, t)
    ELSE resume_activity([self EXCEPT !.screen_locked = FALSE], t)

on_active_changed_gated(self, arg, t) ==
    LET s1 == [self EXCEPT !.screensaver_active = arg] IN
    IF s1.screensaver_active
    THEN IF self.screen_locked THEN s1 ELSE stop_activity(s1, t)
    ELSE resume_activity([s1 EXCEPT !.screen_locked = FALSE], t)

on_active_changed_commit(self, arg, t) ==
    LET s1 == [self EXCEPT !.screensaver_active = arg]
        s2 == IF arg
              THEN stop_activity(s1, t)
              ELSE resume_activity([s1 EXCEPT !.screen_locked = FALSE], t)
    IN IF Last(s2.commands).ok
       THEN s2
       ELSE [self EXCEPT !.commands = s2.commands]

\* on_active_changed (lines 106-115)
on_active_changed(self, arg, t) ==
    LET s1 == [self EXCEPT !.screensaver_active = arg] IN
    IF s1.screensaver_active
    THEN stop_activity(s1, t)
    ELSE resume_activity([s1 EXCEPT !.screen_locked = FALSE], t)

\* ---- the state machine ----
Entry(kind, arg, commands) ==
    [kind |-> kind, arg |-> arg, time |-> now, commands |-> commands]

Store(s) ==
    /\ screensaver_active' = s.screensaver_active
    /\ screen_locked' = s.screen_locked
    /\ timeout_minutes' = s.timeout_minutes
    /\ hamster' = s.hamster

\* the ledger as found at startup: empty, or one fact of today made by hand
InitFacts ==
    { <<>>,
      <<Fact(1, "Lunch", "Private", 0, Some(0))>>,
      <<Fact(1, "Lunch", "Private", 0, None)>>,
      <<Fact(1, "Lunch", "Private", 0, Some(0)),
        Fact(2, "Mail", "Private", 0, Some(0))>> }

\* __init__ (lines 47-75)
Startup ==
    /\ screensaver_active \in BOOLEAN
    /\ screen_locked = FALSE
    /\ \E d \in 0..MaxDelay :
          timeout_minutes = IF d # 0 THEN Div60(d) ELSE Zero
    /\ \E fs \in InitFacts : hamster = [facts |-> fs, next_id |-> Len(fs) + 1]
    /\ now = 0
    /\ last_msg = LockMsg
    /\ history = <<>>

\* run (lines 78-91): the main loop starts with nothing to dispatch
Init ==
    /\ Startup
    /\ queue = <<>>
    /\ running = None
    /\ twin = None

\* the filter sees a ScreenSaver.Lock call
LockRequested ==
    /\ Len(history) < MaxEvents
    /\ Store(on_locked(Self, LockMsg))
    /\ last_msg' = LockMsg
    /\ history' = Append(history, Entry("LockRequested", FALSE, <<>>))
    /\ UNCHANGED now
    /\ UNCHANGED aux

\* the filter sees any other message
OtherMessage ==
    /\ \E msg \in Messages \ {LockMsg} :
          /\ Store(on_locked(Self, msg))
          /\ last_msg' = msg
    /\ UNCHANGED <<now, history>>
    /\ UNCHANGED aux

\* the ActiveChanged signal is delivered with payload arg
ActiveChangedTo(arg) ==
    /\ Len(history) < MaxEvents
    /\ LET s == on_active_changed(Self, arg, now) IN
          /\ Store(s)
          /\ history' = Append(history, Entry("ActiveChanged", arg, s.commands))
    /\ UNCHANGED <<now, last_msg>>
    /\ UNCHANGED aux

ActiveChanged == \E arg \in BOOLEAN : ActiveChangedTo(arg)

\* the wall clock advances
Tick ==
    /\ now < MaxTime
    /\ now' = now + 1
    /\ UNCHANGED <<screensaver_active, screen_locked, timeout_minutes,
                   hamster, last_msg, history>>
    /\ UNCHANGED aux

Next == LockRequested \/ OtherMessage \/ ActiveChanged \/ Tick

Spec == Init /\ [][Next]_vars

\* ---- the same machine with hamster calls that fail ----
\* the events during which a hamster call raised
FailedEvents ==
    {i \in DOMAIN history :
        history[i].commands # <<>> /\ ~history[i].commands[1].ok}

\* the ActiveChanged signal is delivered while the hamster proxy raises; the
\* exception leaves the handler and the main loop goes on
ActiveChangedFailing(arg, bus) ==
    /\ Len(history) < MaxEvents
    /\ Cardinality(FailedEvents) < MaxFailures
    /\ LET s == on_active_changed([Self EXCEPT !.bus = bus], arg, now) IN
          /\ Store(s)
          /\ history' = Append(history, Entry("ActiveChanged", arg, s.commands))
    /\ UNCHANGED <<now, last_msg>>
    /\ UNCHANGED aux

ActiveChangedFails ==
    \E arg \in BOOLEAN, bus \in {"down", "readonly"} :
        ActiveChangedFailing(arg, bus)

NextF == LockRequested \/ ActiveChanged \/ ActiveChangedFails \/ Tick

\* startup over a ledger that is empty or has an ongoing fact
InitF ==
    /\ Init
    /\ hamster.facts # <<>> => Last(hamster.facts).end = None

SpecF == InitF /\ [][NextF]_vars

TypeOK ==
    /\ screensaver_active \in BOOLEAN
    /\ screen_locked \in BOOLEAN
    /\ now \in 0..MaxTime
    /\ Len(history) <= MaxEvents

\* ---- the main loop: events are queued by the bus connection ----
Events == {[kind |-> "LockRequested", arg |-> FALSE],
           [kind |-> "ActiveChanged", arg |-> TRUE],
           [kind |-> "ActiveChanged", arg |-> FALSE]}

\* the number of events received so far
Arrived == Len(history) + Len(running) + Len(queue)

\* the bus connection receives an event; seq is its place in arrival order
ReceiveEvent(ev) ==
    /\ Arrived < MaxEvents
    /\ queue' = Append(queue, [kind |-> ev.kind, arg |-> ev.arg,
                               seq |-> Arrived + 1])
    /\ UNCHANGED <<screensaver_active, screen_locked, timeout_minutes,
                   hamster, now, last_msg, history, running, twin>>

Receive == \E ev \in Events : ReceiveEvent(ev)

IdleAlways == TRUE

\* mainloop.run() (line 90) calls one handler at a time: the next event is
\* taken when the handler before it has returned
Idle == running = None

\* the main loop takes the oldest queued event and calls its handler
Dispatch ==
    /\ Idle
    /\ queue # <<>>
    /\ running' = Some(Head(queue))
    /\ queue' = Tail(queue)
    /\ UNCHANGED <<screensaver_active, screen_locked, timeout_minutes,
                   hamster, now, last_msg, history, twin>>

\* the handler runs to its end, its hamster calls included, and returns
Return ==
    /\ running # None
    /\ LET ev == running[1]
           s == IF ev.kind = "LockRequested"
                THEN on_locked(Self, LockMsg)
                ELSE on_active_changed(Self, ev.arg, now)
       IN /\ Store(s)
          /\ history' = Append(history,
                               [kind |-> ev.kind, arg |-> ev.arg,
                                time |-> now, commands |-> s.commands,
                                seq |-> ev.seq])
          /\ last_msg' = IF ev.kind = "LockRequested"
                         THEN LockMsg ELSE last_msg
    /\ running' = None
    /\ UNCHANGED <<now, queue, twin>>

NextQ == Receive \/ Dispatch \/ Return \/ Tick

SpecQ == Init /\ [][NextQ]_vars

\* ---- two machines fed the same ActiveChanged signals ----
\* the twin is constructed like the machine (lines 47-75), over a ledger of
\* its own with the same contents
InitH ==
    /\ Startup
    /\ queue = <<>>
    /\ running = None
    /\ twin = Self

\* a ScreenSaver.Lock call that only the twin sees
LockTwin ==
    /\ ~twin.screen_locked
    /\ twin' = on_locked(twin, LockMsg)
    /\ UNCHANGED <<screensaver_active, screen_locked, timeout_minutes,
                   hamster, now, last_msg, history, queue, running>>

\* both machines handle ActiveChanged(arg); twin.commands are the commands of
\* the twin's handler
BothActiveChangedTo(arg) ==
    /\ Len(history) < MaxEvents
    /\ LET s == on_active_changed(Self, arg, now) IN
          /\ Store(s)
          /\ history' = Append(history, Entry("ActiveChanged", arg, s.commands))
    /\ twin' = on_active_changed([twin EXCEPT !.commands = <<>>], arg, now)
    /\ UNCHANGED <<now, last_msg, queue, running>>

BothActiveChanged == \E arg \in BOOLEAN : BothActiveChangedTo(arg)

NextH == LockRequested \/ LockTwin \/ BothActiveChanged \/ Tick

SpecH == InitH /\ [][NextH]_vars

\* ---- vocabulary of the properties ----
\* the idle timeout T, in seconds
T == timedelta(timeout_minutes)

\* this step handles one event; it is the last entry of history'
Handles(kind, arg) ==
    /\ Len(history') = Len(history) + 1
    /\ Last(history').kind = kind
    /\ Last(history').arg = arg

IsLock(e) == e.kind = "LockRequested"
IsAC(e, arg) == e.kind = "ActiveChanged" /\ e.arg = arg
N == Len(history)

\* the fact with this id, as a set of at most one element
FactOf(h, id) == {h.facts[i] : i \in {j \in DOMAIN h.facts : h.facts[j].id = id}}

\* C1: with idle_timeout = T > 0 and locked = false, handling
\* ActiveChanged(true) at wall time t issues exactly CloseOpenEntry(t - T).
C1_CloseAtIdleStart ==
    [][(Handles("ActiveChanged", TRUE) /\ ~screen_locked /\ T > 0) =>
          Last(history').commands = <<CloseOpenEntry(now - T)>>]_vars

C1_Witness ==
    /\ N >= 2
    /\ IsAC(history[N - 1], FALSE)
    /\ IsAC(history[N], TRUE)
    /\ T > 0
    /\ ~screen_locked
    /\ history[N].commands = <<CloseOpenEntry(history[N].time - T)>>
    /\ \E f \in FactOf(hamster, history[N - 1].commands[1].id) :
          f.end = Some(history[N].time - T)

\* C2: with locked = true (any idle_timeout) or idle_timeout = 0 (any
\* locked), handling ActiveChanged(true) at wall time t issues exactly
\* CloseOpenEntry(t); so does LockRequested followed by ActiveChanged(true)
\* while active is already true.
C2_CloseAtNow ==
    [][(Handles("ActiveChanged", TRUE) /\ (screen_locked \/ T = 0)) =>
          Last(history').commands = <<CloseOpenEntry(now)>>]_vars

C2_Witness ==
    /\ N >= 3
    /\ IsAC(history[N - 2], TRUE)
    /\ IsLock(history[N - 1])
    /\ IsAC(history[N], TRUE)
    /\ T > 0
    /\ screen_locked
    /\ screensaver_active
    /\ history[N].commands = <<CloseOpenEntry(history[N].time)>>

\* C3 as stated: ActiveChanged(false) received while active = false reissues
\* UpsertOpenEntry and leaves locked and active unchanged, whatever locked
\* was.
C3_Original ==
    [][(Handles("ActiveChanged", FALSE) /\ ~screensaver_active) =>
          /\ Len(Last(history').commands) = 1
          /\ Last(history').commands[1].kind = "UpsertOpenEntry"
          /\ screensaver_active' = screensaver_active
          /\ screen_locked' = screen_locked]_vars

\* C3 amended: ActiveChanged(false) received while active = false reissues
\* UpsertOpenEntry and leaves active unchanged; locked is false afterwards:
\* unchanged when it was false, cleared when a LockRequested had set it.
C3_Reissue ==
    [][(Handles("ActiveChanged", FALSE) /\ ~screensaver_active) =>
          /\ Len(Last(history').commands) = 1
          /\ Last(history').commands[1].kind = "UpsertOpenEntry"
          /\ screensaver_active' = screensaver_active
          /\ screen_locked' = FALSE]_vars

C3_Witness ==
    /\ N >= 3
    /\ IsAC(history[N - 2], FALSE)
    /\ IsLock(history[N - 1])
    /\ IsAC(history[N], FALSE)
    /\ ~screen_locked
    /\ ~screensaver_active
    /\ history[N].commands[1].kind = "UpsertOpenEntry"

\* the events i .. i+3 are ActiveChanged(false), LockRequested,
\* ActiveChanged(true), ActiveChanged(false), all on one day
RoundTripAt(i) ==
    /\ i >= 1
    /\ i + 3 <= N
    /\ IsAC(history[i], FALSE)
    /\ IsLock(history[i + 1])
    /\ IsAC(history[i + 2], TRUE)
    /\ IsAC(history[i + 3], FALSE)
    /\ Day(history[i + 3].time) = Day(history[i].time)

\* C4: within one day, after ActiveChanged(false) has opened entry E, the
\* sequence LockRequested, ActiveChanged(true), ActiveChanged(false) ends
\* with the same entry E (same id) open again, last in the ledger, and no
\* entry created.
C4_RoundTrip ==
    \A i \in 1..N :
        RoundTripAt(i) =>
            LET E == history[i].commands[1].id IN
            /\ history[i + 3].commands = <<UpsertOpenEntry(E, FALSE)>>
            /\ (i + 3 = N =>
                   /\ Last(hamster.facts).id = E
                   /\ Last(hamster.facts).end = None
                   /\ (history[i].commands[1].created =>
                          Len(hamster.facts) = E))

C4_Witness ==
    /\ N = 4
    /\ RoundTripAt(1)
    /\ history[1].commands[1].created
    /\ history[3].time > history[1].time
    /\ \E f \in FactOf(hamster, history[1].commands[1].id) : f.end = None

\* C5: UpsertOpenEntry decides from the ledger as it is when the event is
\* handled: with a fact of today, the most recent one has its end cleared
\* and no fact is created; with none, exactly one fact is created, starting
\* now, open, with the default category and activity.
C5_Upsert ==
    [][Handles("ActiveChanged", FALSE) =>
          LET today == TodaysFacts(hamster, now)
              old == hamster.facts
              new == hamster'.facts
          IN IF today # <<>>
             THEN /\ Len(new) = Len(old)
                  /\ \A i \in DOMAIN old :
                        new[i] = IF old[i].id = Last(today).id
                                 THEN [old[i] EXCEPT !.end = None]
                                 ELSE old[i]
                  /\ Last(history').commands =
                        <<UpsertOpenEntry(Last(today).id, FALSE)>>
             ELSE /\ Len(new) = Len(old) + 1
                  /\ \A i \in DOMAIN old : new[i] = old[i]
                  /\ Last(new).start = now
                  /\ Last(new).end = None
                  /\ Last(new).category = default_category
                  /\ Last(new).activity = default_activity
                  /\ \A i \in DOMAIN old : old[i].id # Last(new).id
                  /\ Last(history').commands =
                        <<UpsertOpenEntry(Last(new).id, TRUE)>>]_vars

C5_Witness ==
    /\ N >= 2
    /\ IsAC(history[N], FALSE)
    /\ history[N].commands[1].created
    /\ Len(hamster.facts) = 3
    /\ \E i \in 1..(N - 1) :
          /\ IsAC(history[i], FALSE)
          /\ ~history[i].commands[1].created
          /\ history[i].commands[1].id = 2

\* C6: within a single day the machine creates at most one ledger entry:
\* of two ActiveChanged(false) events of one day, the later one reopens the
\* entry the earlier one opened.
C6_OneEntryPerDay ==
    \A i, j \in 1..N :
        (/\ i < j
         /\ IsAC(history[i], FALSE)
         /\ IsAC(history[j], FALSE)
         /\ Day(history[i].time) = Day(history[j].time)) =>
            /\ ~history[j].commands[1].created
            /\ history[j].commands[1].id = history[i].commands[1].id

C6_Witness ==
    /\ N >= 4
    /\ IsAC(history[1], FALSE)
    /\ history[1].commands[1].created
    /\ IsAC(history[2], TRUE)
    /\ IsAC(history[3], FALSE)
    /\ IsAC(history[4], TRUE)
    /\ Day(history[4].time) = Day(history[1].time)
    /\ history[3].time > history[1].time
    /\ Len(hamster.facts) = 1

\* the latest fact of today is ongoing
OpenToday ==
    LET today == TodaysFacts(hamster, now) IN
    today # <<>> /\ Last(today).end = None

\* no fact of the ledger is ongoing
NoneOpen == \A i \in DOMAIN hamster.facts : hamster.facts[i].end # None

SyncedToday ==
    \E i \in 1..N :
        /\ history[i].kind = "ActiveChanged"
        /\ Day(history[i].time) = Day(now)
        /\ \A j \in (i + 1)..N : history[j].kind # "ActiveChanged"

C8_CommandByKind ==
    /\ \A i \in 1..N :
          LET e == history[i] IN
          /\ IsLock(e) => e.commands = <<>>
          /\ IsAC(e, TRUE) =>
                Len(e.commands) = 1 /\ e.commands[1].kind = "CloseOpenEntry"
          /\ IsAC(e, FALSE) =>
                Len(e.commands) = 1 /\ e.commands[1].kind = "UpsertOpenEntry"
    /\ on_locked(Self, LockMsg).commands = <<>>
    /\ \A arg \in BOOLEAN :
          LET s == on_active_changed(Self, arg, now) IN
          /\ s.screensaver_active = arg
          /\ Len(s.commands) = 1
          /\ s.commands[1].kind =
                IF arg THEN "CloseOpenEntry" ELSE "UpsertOpenEntry"

C8_Witness ==
    /\ N >= 4
    /\ IsAC(history[N - 3], TRUE)
    /\ IsAC(history[N - 2], TRUE)
    /\ IsAC(history[N - 1], FALSE)
    /\ IsAC(history[N], FALSE)
    /\ history[N - 2].commands[1].kind = "CloseOpenEntry"
    /\ history[N].commands[1].kind = "UpsertOpenEntry"

\* C9: handling LockRequested sets locked = true and changes nothing else:
\* active, idle_timeout and the ledger are unchanged and no command is
\* issued; with locked already true the whole state is unchanged.
C9_LockOnly ==
    [][Handles("LockRequested", FALSE) =>
          /\ screen_locked' = TRUE
          /\ screensaver_active' = screensaver_active
          /\ timeout_minutes' = timeout_minutes
          /\ hamster' = hamster
          /\ Last(history').commands = <<>>
          /\ screen_locked =>
                <<screensaver_active, screen_locked, timeout_minutes, hamster>>'
                   = <<screensaver_active, screen_locked, timeout_minutes,
                       hamster>>]_vars

C9_Witness ==
    /\ N >= 3
    /\ IsAC(history[N - 2], FALSE)
    /\ IsLock(history[N - 1])
    /\ IsLock(history[N])
    /\ screen_locked
    /\ ~screensaver_active
    /\ OpenToday

\* C10: handling ActiveChanged(true) never changes locked.
C10_LockedKept ==
    [][Handles("ActiveChanged", TRUE) => screen_locked' = screen_locked]_vars

C10_Witness ==
    /\ N >= 2
    /\ IsLock(history[N - 1])
    /\ IsAC(history[N], TRUE)
    /\ screen_locked
    /\ screensaver_active

\* C11 as stated: locked goes from true to false only by an event that takes
\* active from true to false.
C11_Original ==
    [][(screen_locked /\ ~screen_locked') =>
          (screensaver_active /\ ~screensaver_active')]_vars

\* C11 amended: locked is reset to false by every ActiveChanged(false) and
\* by nothing else, whether active was true or already false.
C11_ResetOnResume ==
    [][/\ (screen_locked /\ ~screen_locked') =>
             Handles("ActiveChanged", FALSE)
       /\ Handles("ActiveChanged", FALSE) => ~screen_locked']_vars

C11_Witness ==
    /\ N >= 3
    /\ IsAC(history[N - 2], TRUE)
    /\ IsLock(history[N - 1])
    /\ IsAC(history[N], FALSE)
    /\ ~screen_locked
    /\ ~screensaver_active

\* some fact of today is ongoing
AnyOpenToday ==
    \E i \in DOMAIN hamster.facts :
        IsToday(hamster.facts[i], now) /\ hamster.facts[i].end = None

\* this step handles ActiveChanged(arg) and its command succeeded / failed
HandlesOk(arg) ==
    Handles("ActiveChanged", arg) /\ Last(history').commands[1].ok
HandlesFailed(arg) ==
    Handles("ActiveChanged", arg) /\ ~Last(history').commands[1].ok

\* C12: when a ledger call fails while ActiveChanged is handled, active
\* takes the payload and locked is cleared for payload false and kept for
\* payload true, as after a success; the ledger is left as it was, one
\* command was attempted, and the ledger changes later only by the
\* successful command of another event.
C12_NoRollback ==
    [][/\ \A arg \in BOOLEAN :
             HandlesFailed(arg) =>
                /\ screensaver_active' = arg
                /\ screen_locked' = (IF arg THEN screen_locked ELSE FALSE)
                /\ timeout_minutes' = timeout_minutes
                /\ hamster' = hamster
                /\ Len(Last(history').commands) = 1
       /\ hamster' # hamster =>
             \E arg \in BOOLEAN : HandlesOk(arg)]_vars

C12_Witness ==
    /\ N >= 2
    /\ IsLock(history[N - 1])
    /\ IsAC(history[N], FALSE)
    /\ ~history[N].commands[1].ok
    /\ ~screensaver_active
    /\ ~screen_locked
    /\ ~AnyOpenToday
    /\ now > history[N].time

\* C13: after any ActiveChanged whose command succeeded, whatever failed
\* before, the ledger is in line with the machine: with active = false the
\* latest entry of today is open, with active = true no entry of today is.
C13_SelfCorrects ==
    [][\A arg \in BOOLEAN :
          HandlesOk(arg) =>
             /\ ~screensaver_active' => OpenToday'
             /\ screensaver_active' => ~AnyOpenToday']_vars

C13_Witness ==
    /\ N >= 3
    /\ IsAC(history[N - 2], FALSE)
    /\ history[N - 2].commands[1].ok
    /\ IsAC(history[N - 1], TRUE)
    /\ ~history[N - 1].commands[1].ok
    /\ IsAC(history[N], TRUE)
    /\ history[N].commands[1].ok
    /\ screensaver_active
    /\ ~AnyOpenToday
    /\ \E f \in FactOf(hamster, history[N - 2].commands[1].id) :
          f.end = history[N].commands[1].at

\* C14: events are handled one at a time in arrival order: the i-th entry of
\* history is the i-th event received, with its command; a handler starts
\* only when none is running; the state and the ledger change only in the
\* step that completes the handling of the next event in arrival order.
C14_InOrder ==
    /\ [](\A i \in 1..N : history[i].seq = i)
    /\ [][/\ (running' # None /\ running' # running) =>
                (running = None /\ running'[1].seq = N + 1)
          /\ (<<screensaver_active, screen_locked, hamster>>' #
                 <<screensaver_active, screen_locked, hamster>>) =>
                (/\ running # None
                 /\ running' = None
                 /\ Len(history') = N + 1
                 /\ Last(history').seq = N + 1
                 /\ Last(history').kind = running[1].kind
                 /\ Last(history').arg = running[1].arg)]_vars

C14_Witness ==
    /\ N >= 2
    /\ IsAC(history[N - 1], FALSE)
    /\ IsAC(history[N], TRUE)
    /\ history[N - 1].commands[1].kind = "UpsertOpenEntry"
    /\ history[N].commands[1].kind = "CloseOpenEntry"
    /\ history[N].seq = N
    /\ running # None
    /\ running[1].seq = N + 1
    /\ queue # <<>>

\* the kinds of a sequence of commands
Kinds(cs) == [i \in DOMAIN cs |-> cs[i].kind]

\* a ledger without its close timestamps: each fact with its id, labels and
\* start, and whether it is ongoing
Shape(h) ==
    [i \in DOMAIN h.facts |->
        [h.facts[i] EXCEPT !.end = IF @ = None THEN None ELSE Some(0)]]

\* C15: two machines that start with the same active value and handle the
\* same ActiveChanged events, with LockRequested events interleaved
\* differently, have the same active value after every event and issue
\* commands of the same kinds; their ledgers differ in close timestamps only.
C15_LockedOnlyTimes ==
    [][/\ twin'.screensaver_active = screensaver_active'
       /\ Shape(twin'.hamster) = Shape(hamster')
       /\ \A arg \in BOOLEAN :
             Handles("ActiveChanged", arg) =>
                Kinds(twin'.commands) = Kinds(Last(history').commands)]_vars

C15_Witness ==
    /\ N >= 2
    /\ IsAC(history[N - 1], FALSE)
    /\ IsAC(history[N], TRUE)
    /\ twin.screen_locked # screen_locked
    /\ twin.screensaver_active
    /\ Kinds(twin.commands) = <<"CloseOpenEntry">>
    /\ twin.commands[1].at # history[N].commands[1].at
    /\ twin.hamster # hamster

\* the index in history of the last ActiveChanged event handled, if any
LastAC ==
    {i \in 1..N :
        /\ history[i].kind = "ActiveChanged"
        /\ \A j \in (i + 1)..N : history[j].kind # "ActiveChanged"}

\* C16: at startup locked is false, no event has been handled and the
\* ledger is as it was found; active changes only when ActiveChanged is
\* handled, so until then it is the value read at startup, and afterwards it
\* is the payload of the last ActiveChanged handled.
C16_ActiveMirrors ==
    /\ screen_locked = FALSE
    /\ history = <<>>
    /\ hamster.facts \in InitFacts
    /\ [](\A i \in LastAC : screensaver_active = history[i].arg)
    /\ [][screensaver_active' # screensaver_active =>
             Handles("ActiveChanged", screensaver_active')]_vars

C16_Witness ==
    /\ N >= 3
    /\ IsAC(history[N - 2], FALSE)
    /\ IsAC(history[N - 1], TRUE)
    /\ IsLock(history[N])
    /\ screensaver_active
    /\ now > history[N].time

\* a LockRequested has been handled and no ActiveChanged(false) after it
LockSeen ==
    \E i \in 1..N :
        /\ IsLock(history[i])
        /\ \A j \in (i + 1)..N : ~IsAC(history[j], FALSE)

\* C17: locked is true exactly when a LockRequested has been handled since
\* the last ActiveChanged(false), or since startup; a step that handles no
\* event, such as a bus message that is not a ScreenSaver Lock call, leaves
\* locked as it is.
C17_LockedSinceResume ==
    /\ [](screen_locked <=> LockSeen)
    /\ [][history' = history => screen_locked' = screen_locked]_vars

C17_Witness ==
    /\ N >= 2
    /\ IsAC(history[N - 1], FALSE)
    /\ IsLock(history[N])
    /\ screen_locked
    /\ last_msg = [interface |-> "org.gnome.Hamster", member |-> "Lock"]

\* C18: when ActiveChanged(false) is handled on a day that has entries, the
\* latest entry keeps its id, start, category and activity, its end is
\* unset, and every other entry is unchanged.
C18_ReopenFrame ==
    [][(Handles("ActiveChanged", FALSE) /\ TodaysFacts(hamster, now) # <<>>) =>
          LET latest == Last(TodaysFacts(hamster, now)) IN
          /\ DOMAIN hamster'.facts = DOMAIN hamster.facts
          /\ \A i \in DOMAIN hamster.facts :
                LET old == hamster.facts[i]
                    new == hamster'.facts[i]
                IN IF old.id = latest.id
                   THEN /\ new.id = old.id
                        /\ new.start = old.start
                        /\ new.category = old.category
                        /\ new.activity = old.activity
                        /\ new.end = None
                   ELSE new = old]_vars

C18_Witness ==
    /\ N >= 1
    /\ IsAC(history[N], FALSE)
    /\ history[N].time > 0
    /\ history[N].commands = <<UpsertOpenEntry(2, FALSE)>>
    /\ hamster.facts =
          <<Fact(1, "Lunch", "Private", 0, Some(0)),
            Fact(2, "Mail", "Private", 0, None)>>

\* C19: the close timestamp of CloseOpenEntry is never earlier than the
\* start of the entry it closes, and no ledger entry ends before it starts.
C19_CloseAfterStart ==
    [][(Handles("ActiveChanged", TRUE) /\ OpenToday) =>
          /\ Last(history').commands[1].at[1] >=
                Last(TodaysFacts(hamster, now)).start
          /\ \A i \in DOMAIN hamster'.facts :
                hamster'.facts[i].end # None =>
                   hamster'.facts[i].end[1] >= hamster'.facts[i].start]_vars
====
